---- MODULE Spec2Model ----
(***************************************************************************)
(* The three model-conversion scripts of the repository, one run at a      *)
(* time:                                                                   *)
(*   scripts/convert_yolo_model.py            (entry "yolo", "yolo_fn")    *)
(*   scripts/generate_lstm_model.py           (entry "lstm", "info")       *)
(*   tools/model_conversion/convert_tf_savedmodel_to_tflite_fp16.py ("tf") *)
(*                                                                         *)
(* A path is a sequence of one-character strings.  The file system is the  *)
(* set dirs of existing directories and the function files from the paths  *)
(* of existing regular files to their contents; the working directory is   *)
(* the empty path.  A call into the ML framework either returns or raises; *)
(* a file operation raises exactly when the path makes it raise (missing   *)
(* parent directory, empty path, a file in the way).                       *)
(***************************************************************************)
EXTENDS Integers, Sequences, FiniteSets, TLC

VARIABLES
  entry,            \* which script / function this run executes
  argv,             \* the command line (tf only)
  pc,               \* the statement about to run
  outcome,          \* "running", "done", "traceback", "exit1", "exit2"
  dirs,             \* existing directories
  files,            \* existing regular files: path -> contents
  files0,           \* the files when the run started
  console,          \* lines printed so far (tags)
  calls,            \* steps started so far, in order
  raised,           \* steps that raised, in order
  args,             \* argparse Namespace (tf)
  supported_types,  \* converter.target_spec.supported_types
  tflite_model,     \* bytes returned by converter.convert()
  output_path,      \* output_path of create_demo_lstm_model / generate_model_info
  info_path,        \* info_path of generate_model_info
  in_details,       \* number of input tensors reported
  out_details,      \* number of output tensors reported
  idx,              \* position of the running for-loop
  exported          \* whether model.export() has produced its artefacts (yolo)

vars == <<entry, argv, pc, outcome, dirs, files, files0, console, calls, raised,
          args, supported_types, tflite_model, output_path, info_path,
          in_details, out_details, idx, exported>>

----------------------------------------------------------------------------
(* Bounds *)

MaxTensors == 2

MaxFragments == 3

----------------------------------------------------------------------------
(* Strings and paths *)

Slash == "/"

DotTflite == <<".", "t", "f", "l", "i", "t", "e">>

InfoSuffix == <<"_", "i", "n", "f", "o", ".", "m", "d">>

ModelsDirName == <<"m", "o", "d", "e", "l", "s">>

LstmFileName == <<"a", "s", "l", "_", "l", "s", "t", "m", "_", "d", "e", "m", "o">> \o DotTflite

AssetsModels == <<"a", "s", "s", "e", "t", "s", "/", "m", "o", "d", "e", "l", "s">>

\* str.replace(old, new): every non-overlapping occurrence, left to right
RECURSIVE Replace(_, _, _)
Replace(s, old, new) ==
  IF Len(s) < Len(old) THEN s
  ELSE IF SubSeq(s, 1, Len(old)) = old
       THEN new \o Replace(SubSeq(s, Len(old) + 1, Len(s)), old, new)
       ELSE <<s[1]>> \o Replace(Tail(s), old, new)

\* str.rfind(c) + 1
RFind1(p, c) ==
  IF \E k \in 1..Len(p) : p[k] = c
  THEN CHOOSE k \in 1..Len(p) : p[k] = c /\ \A j \in (k+1)..Len(p) : p[j] # c
  ELSE 0

RECURSIVE RStrip(_, _)
RStrip(p, c) ==
  IF p # <<>> /\ p[Len(p)] = c THEN RStrip(SubSeq(p, 1, Len(p) - 1), c) ELSE p

\* posixpath.dirname
dirname(p) ==
  LET head == SubSeq(p, 1, RFind1(p, Slash))
  IN IF head # <<>> /\ (\E k \in 1..Len(head) : head[k] # Slash)
     THEN RStrip(head, Slash)
     ELSE head

\* posixpath.basename
basename(p) == SubSeq(p, RFind1(p, Slash) + 1, Len(p))

\* posixpath.join(a, b)
join(a, b) ==
  IF b # <<>> /\ b[1] = Slash THEN b
  ELSE IF a = <<>> \/ a[Len(a)] = Slash THEN a \o b
  ELSE a \o <<Slash>> \o b

\* the path and the directories above it, up to the working directory or the root
RECURSIVE Ancestors(_)
Ancestors(p) ==
  IF p = <<>> \/ dirname(p) = p THEN {} ELSE {p} \cup Ancestors(dirname(p))

----------------------------------------------------------------------------
(* File system *)

\* os.makedirs(path, exist_ok=True) raises: the empty path, or a file in the way
MakedirsRaises(path, ds, fs) ==
  \/ path = <<>>
  \/ \E a \in Ancestors(path) : a \in DOMAIN fs

MakedirsResult(path, ds) == ds \cup Ancestors(path)

DirExists(d, ds) == d = <<>> \/ d \in ds \/ (d # <<>> /\ \A k \in 1..Len(d) : d[k] = Slash)

\* open(path, 'w' / 'wb') raises: no file name, a directory at path, no parent directory
OpenRaises(path, ds, fs) ==
  \/ basename(path) = <<>>
  \/ path \in ds
  \/ ~DirExists(dirname(path), ds)
  \/ \E a \in Ancestors(dirname(path)) : a \in DOMAIN fs

\* with open(path, mode) as f: f.write(data)
WriteFile(fs, path, data) ==
  [q \in DOMAIN fs \cup {path} |-> IF q = path THEN data ELSE fs[q]]

----------------------------------------------------------------------------
(* Inputs *)

Entries == {"yolo", "yolo_fn", "lstm", "tf"}

ModelBytes == {"tflite_a", "tflite_b"}

InfoContent == "info_content"

OldContent == "old"

EmptyFiles == [q \in {} |-> OldContent]

DirD == <<"d">>

TfOutputs == {<<"m">>, <<"d", "/", "m">>, <<"d", "/", "e", "/", "m">>}

TfArgvs ==
  [complete : {TRUE}, saved_model_dir : {"valid", "invalid"},
   output : TfOutputs, fp16_flag : BOOLEAN]
  \cup [complete : {FALSE}, saved_model_dir : {"none"}, output : {<<>>}, fp16_flag : {FALSE}]

NoArgv == [complete |-> FALSE, saved_model_dir |-> "none", output |-> <<>>, fp16_flag |-> FALSE]

NoArgs == [saved_model_dir |-> "none", output |-> <<>>, fp16 |-> FALSE]

LstmOutputPath == join(ModelsDirName, LstmFileName)

\* the file systems a run can start in: the named directories exist or not, and a
\* file left by an earlier run exists at some of the named paths
StartFiles(ds, paths) ==
  {[q \in S |-> OldContent] : S \in SUBSET {q \in paths : ~OpenRaises(q, ds, EmptyFiles)}}

PathFragments == {<<"m">>, DotTflite, <<".", "b", "i", "n">>, <<"d", "/">>}

RECURSIVE Concats(_)
Concats(n) ==
  IF n = 0 THEN {<<>>}
  ELSE {f \o r : f \in PathFragments, r \in Concats(n - 1)}

InfoPaths == UNION {Concats(n) : n \in 1..MaxFragments}

----------------------------------------------------------------------------
(* Control flow *)

\* the statements inside try: of generate_lstm_model.main
LstmTry == {"lstm_build", "lstm_fit", "lstm_from_keras", "lstm_convert", "lstm_write",
            "lstm_interpreter", "lstm_inference", "gmi_replace", "gmi_write",
            "gmi_print", "lstm_success"}

\* the statements inside try: of convert_tf_savedmodel_to_tflite_fp16.main
TfTry == {"tf_interpreter", "tf_get_details", "tf_print_inputs", "tf_print_outputs"}

\* mutant: the whole body of tf main wrapped in the try
HandlerCatchAll(e, p) ==
  IF e = "lstm" /\ p \in LstmTry THEN "lstm_except"
  ELSE IF e = "tf" /\ p # "tf_parse" THEN "tf_except"
  ELSE "uncaught"

\* the except clause that catches an exception raised at statement p, if any
Handler(e, p) ==
  IF e = "lstm" /\ p \in LstmTry THEN "lstm_except"
  ELSE IF e = "tf" /\ p \in TfTry THEN "tf_except"
  ELSE "uncaught"

\* statement `step` ran and control moves on to `next`, printing `prints`
Goto(step, next, prints) ==
  /\ pc' = next
  /\ outcome' = outcome
  /\ calls' = Append(calls, step)
  /\ raised' = raised
  /\ console' = console \o prints

\* statement `step` ran and the process ends with `out`
Finish(step, out, prints) ==
  /\ pc' = "end"
  /\ outcome' = out
  /\ calls' = Append(calls, step)
  /\ raised' = raised
  /\ console' = console \o prints

\* statement `step` raised: to the enclosing except clause, or out of the script
Fail(step) ==
  /\ calls' = Append(calls, step)
  /\ raised' = Append(raised, step)
  /\ IF Handler(entry, step) = "uncaught"
     THEN pc' = "end" /\ outcome' = "traceback" /\ console' = Append(console, "Traceback")
     ELSE pc' = Handler(entry, step) /\ outcome' = outcome /\ console' = console

\* argparse action="store_true": True when the flag is given, else the default
StoreTrue(given, default) == IF given THEN TRUE ELSE default

Fp16Default == TRUE

\* mutant: the suffix is not replaced
InfoPathSame(p) == p

\* info_path = output_path.replace('.tflite', '_info.md')
InfoPathOf(p) == Replace(p, DotTflite, InfoSuffix)

----------------------------------------------------------------------------
(* Initial states *)

StartPc(e) ==
  CASE e = "yolo" -> "yolo_import"
    [] e = "yolo_fn" -> "yolo_import"
    [] e = "lstm" -> "lstm_import"
    [] e = "tf" -> "tf_parse"
    [] e = "info" -> "gmi_replace"

StartDirs(e) ==
  CASE e = "tf" -> {{}, {DirD}}
    [] e = "lstm" -> {{}, {ModelsDirName}}
    [] OTHER -> {{}, Ancestors(AssetsModels)}

InitCommon ==
  /\ pc = StartPc(entry)
  /\ outcome = "running"
  /\ files0 = files
  /\ console = <<>>
  /\ calls = <<>>
  /\ raised = <<>>
  /\ args = NoArgs
  /\ supported_types = "unset"
  /\ tflite_model = "none"
  /\ info_path = <<>>
  /\ in_details = 0
  /\ out_details = 0
  /\ idx = 0
  /\ exported = FALSE

Init ==
  /\ entry \in Entries
  /\ argv \in (IF entry = "tf" THEN TfArgvs ELSE {NoArgv})
  /\ dirs \in StartDirs(entry)
  /\ files \in (CASE entry = "tf" -> StartFiles(dirs, {argv.output})
                  [] entry = "lstm" ->
                       StartFiles(dirs, {LstmOutputPath, InfoPathOf(LstmOutputPath)})
                  [] OTHER -> {EmptyFiles})
  /\ output_path = <<>>
  /\ InitCommon

\* a direct call generate_model_info(output_path), the model file in place
InitInfo ==
  /\ entry = "info"
  /\ argv = NoArgv
  /\ output_path \in InfoPaths
  /\ dirs = Ancestors(dirname(output_path))
  /\ files \in (IF OpenRaises(output_path, dirs, EmptyFiles)
                THEN {EmptyFiles}
                ELSE {[q \in {output_path} |-> b] : b \in ModelBytes})
  /\ InitCommon

----------------------------------------------------------------------------
(* convert_tf_savedmodel_to_tflite_fp16.py: main *)

fixed == <<entry, argv, files0>>

fsys == <<dirs, files>>

conv == <<args, supported_types, tflite_model>>

lstm_vars == <<output_path, info_path>>

insp == <<in_details, out_details, idx>>

\* parser.parse_args(): a missing required option prints the usage and exits with 2
TfParseArgs ==
  /\ pc = "tf_parse"
  /\ IF argv.complete
     THEN /\ args' = [saved_model_dir |-> argv.saved_model_dir,
                      output |-> argv.output,
                      fp16 |-> StoreTrue(argv.fp16_flag, Fp16Default)]
          /\ Goto("tf_parse", "tf_import", <<>>)
     ELSE /\ args' = args
          /\ Finish("tf_parse", "exit2", <<"usage">>)
  /\ UNCHANGED <<fixed, fsys, supported_types, tflite_model, lstm_vars, insp, exported>>

\* import tensorflow as tf
TfImport ==
  /\ pc = "tf_import"
  /\ \/ Goto("tf_import", "tf_from_saved_model", <<>>)
     \/ Fail("tf_import")
  /\ UNCHANGED <<fixed, fsys, conv, lstm_vars, insp, exported>>

\* converter = TFLiteConverter.from_saved_model(dir); converter.optimizations = [DEFAULT]
TfFromSavedModel ==
  /\ pc = "tf_from_saved_model"
  /\ \/ /\ args.saved_model_dir = "valid"
        /\ Goto("tf_from_saved_model", "tf_set_fp16", <<>>)
     \/ Fail("tf_from_saved_model")
  /\ UNCHANGED <<fixed, fsys, conv, lstm_vars, insp, exported>>

\* if args.fp16: converter.target_spec.supported_types = [tf.float16]
TfSetFp16 ==
  /\ pc = "tf_set_fp16"
  /\ supported_types' = IF args.fp16 THEN "float16" ELSE supported_types
  /\ Goto("tf_set_fp16", "tf_convert", <<>>)
  /\ UNCHANGED <<fixed, fsys, args, tflite_model, lstm_vars, insp, exported>>

\* mutant: the output file is opened before convert() is called
TfConvertOpensFirst ==
  /\ pc = "tf_convert"
  /\ files' = WriteFile(files, args.output, "")
  /\ dirs' = dirs
  /\ \/ /\ \E b \in ModelBytes : tflite_model' = b
        /\ Goto("tf_convert", "tf_makedirs", <<>>)
     \/ /\ tflite_model' = tflite_model
        /\ Fail("tf_convert")
  /\ UNCHANGED <<fixed, args, supported_types, lstm_vars, insp, exported>>

\* tflite_model = converter.convert()
TfConvert ==
  /\ pc = "tf_convert"
  /\ \/ /\ \E b \in ModelBytes : tflite_model' = b
        /\ Goto("tf_convert", "tf_makedirs", <<>>)
     \/ /\ tflite_model' = tflite_model
        /\ Fail("tf_convert")
  /\ UNCHANGED <<fixed, fsys, args, supported_types, lstm_vars, insp, exported>>

\* os.makedirs(os.path.dirname(args.output), exist_ok=True)
TfMakedirs ==
  /\ pc = "tf_makedirs"
  /\ IF MakedirsRaises(dirname(args.output), dirs, files)
     THEN /\ dirs' = dirs
          /\ Fail("tf_makedirs")
     ELSE /\ dirs' = MakedirsResult(dirname(args.output), dirs)
          /\ Goto("tf_makedirs", "tf_write", <<>>)
  /\ UNCHANGED <<fixed, files, conv, lstm_vars, insp, exported>>

\* with open(args.output, "wb") as f: f.write(tflite_model)
TfWrite ==
  /\ pc = "tf_write"
  /\ IF OpenRaises(args.output, dirs, files)
     THEN /\ files' = files
          /\ Fail("tf_write")
     ELSE /\ files' = WriteFile(files, args.output, tflite_model)
          /\ Goto("tf_write", "tf_report", <<>>)
  /\ UNCHANGED <<fixed, dirs, conv, lstm_vars, insp, exported>>

\* size_mb = os.path.getsize(args.output) ...; print Wrote:, Size:
TfReport ==
  /\ pc = "tf_report"
  /\ IF args.output \in DOMAIN files
     THEN Goto("tf_report", "tf_interpreter", <<"Wrote:", "Size:">>)
     ELSE Fail("tf_report")
  /\ UNCHANGED <<fixed, fsys, conv, lstm_vars, insp, exported>>

\* interpreter = tf.lite.Interpreter(model_path=args.output); allocate_tensors()
TfInterpreter ==
  /\ pc = "tf_interpreter"
  /\ \/ Goto("tf_interpreter", "tf_get_details", <<>>)
     \/ Fail("tf_interpreter")
  /\ UNCHANGED <<fixed, fsys, conv, lstm_vars, insp, exported>>

\* in_details = ...; out_details = ...; print("Input tensors:")
TfGetDetails ==
  /\ pc = "tf_get_details"
  /\ \/ /\ in_details' \in 0..MaxTensors
        /\ out_details' \in 0..MaxTensors
        /\ idx' = 0
        /\ Goto("tf_get_details", "tf_print_inputs", <<"Input tensors:">>)
     \/ /\ UNCHANGED insp
        /\ Fail("tf_get_details")
  /\ UNCHANGED <<fixed, fsys, conv, lstm_vars, exported>>

\* for d in in_details: print(...); then print("Output tensors:")
TfPrintInputs ==
  /\ pc = "tf_print_inputs"
  /\ IF idx < in_details
     THEN /\ idx' = idx + 1
          /\ pc' = pc
          /\ console' = Append(console, "  - input")
     ELSE /\ idx' = 0
          /\ pc' = "tf_print_outputs"
          /\ console' = Append(console, "Output tensors:")
  /\ UNCHANGED <<fixed, fsys, conv, lstm_vars, in_details, out_details, exported,
                 outcome, calls, raised>>

\* mutant: the loop over out_details never advances
TfPrintOutputsStuck ==
  /\ pc = "tf_print_outputs"
  /\ IF idx < out_details
     THEN /\ idx' = idx
          /\ pc' = pc
          /\ outcome' = outcome
          /\ console' = console
     ELSE /\ idx' = idx
          /\ pc' = "end"
          /\ outcome' = "done"
          /\ console' = console
  /\ UNCHANGED <<fixed, fsys, conv, lstm_vars, in_details, out_details, exported,
                 calls, raised>>

\* for d in out_details: print(...); main returns
TfPrintOutputs ==
  /\ pc = "tf_print_outputs"
  /\ IF idx < out_details
     THEN /\ idx' = idx + 1
          /\ pc' = pc
          /\ outcome' = outcome
          /\ console' = Append(console, "  - output")
     ELSE /\ idx' = idx
          /\ pc' = "end"
          /\ outcome' = "done"
          /\ console' = console
  /\ UNCHANGED <<fixed, fsys, conv, lstm_vars, in_details, out_details, exported,
                 calls, raised>>

\* mutant: the except clause removes the file it could not inspect
TfExceptRemoves ==
  /\ pc = "tf_except"
  /\ files' = [q \in DOMAIN files \ {args.output} |-> files[q]]
  /\ dirs' = dirs
  /\ Finish("tf_except", "done", <<"(inspect skipped)">>)
  /\ UNCHANGED <<fixed, conv, lstm_vars, insp, exported>>

\* except Exception as e: print("(inspect skipped) ...")
TfExcept ==
  /\ pc = "tf_except"
  /\ Finish("tf_except", "done", <<"(inspect skipped)">>)
  /\ UNCHANGED <<fixed, fsys, conv, lstm_vars, insp, exported>>

TfNext ==
  \/ TfParseArgs \/ TfImport \/ TfFromSavedModel \/ TfSetFp16 \/ TfConvert
  \/ TfMakedirs \/ TfWrite \/ TfReport \/ TfInterpreter \/ TfGetDetails
  \/ TfPrintInputs \/ TfPrintOutputs \/ TfExcept

----------------------------------------------------------------------------
(* generate_lstm_model.py *)

\* module-level imports of numpy and tensorflow
LstmImport ==
  /\ pc = "lstm_import"
  /\ \/ Goto("lstm_import", "lstm_main", <<>>)
     \/ Fail("lstm_import")
  /\ UNCHANGED <<fixed, fsys, conv, lstm_vars, insp, exported>>

\* main: banner, os.makedirs("models", exist_ok=True), output_path = join(...)
LstmMain ==
  /\ pc = "lstm_main"
  /\ IF MakedirsRaises(ModelsDirName, dirs, files)
     THEN /\ UNCHANGED <<dirs, output_path>>
          /\ Fail("lstm_main")
     ELSE /\ dirs' = MakedirsResult(ModelsDirName, dirs)
          /\ output_path' = join(ModelsDirName, LstmFileName)
          /\ Goto("lstm_main", "lstm_build", <<"ASL LSTM Model Generator">>)
  /\ UNCHANGED <<fixed, files, conv, info_path, insp, exported>>

\* create_demo_lstm_model: Sequential([...]), compile, summary
LstmBuild ==
  /\ pc = "lstm_build"
  /\ \/ Goto("lstm_build", "lstm_fit", <<"Creating demo LSTM model...">>)
     \/ Fail("lstm_build")
  /\ UNCHANGED <<fixed, fsys, conv, lstm_vars, insp, exported>>

\* dummy data and model.fit(...)
LstmFit ==
  /\ pc = "lstm_fit"
  /\ \/ Goto("lstm_fit", "lstm_from_keras", <<"Training completed.">>)
     \/ Fail("lstm_fit")
  /\ UNCHANGED <<fixed, fsys, conv, lstm_vars, insp, exported>>

\* converter = TFLiteConverter.from_keras_model(model); optimizations = [DEFAULT]
LstmFromKeras ==
  /\ pc = "lstm_from_keras"
  /\ \/ Goto("lstm_from_keras", "lstm_convert", <<"Converting to TensorFlow Lite...">>)
     \/ Fail("lstm_from_keras")
  /\ UNCHANGED <<fixed, fsys, conv, lstm_vars, insp, exported>>

\* tflite_model = converter.convert()
LstmConvert ==
  /\ pc = "lstm_convert"
  /\ \/ /\ \E b \in ModelBytes : tflite_model' = b
        /\ Goto("lstm_convert", "lstm_write", <<>>)
     \/ /\ tflite_model' = tflite_model
        /\ Fail("lstm_convert")
  /\ UNCHANGED <<fixed, fsys, args, supported_types, lstm_vars, insp, exported>>

\* with open(output_path, 'wb') as f: f.write(tflite_model); print saved, size
LstmWrite ==
  /\ pc = "lstm_write"
  /\ IF OpenRaises(output_path, dirs, files)
     THEN /\ files' = files
          /\ Fail("lstm_write")
     ELSE /\ files' = WriteFile(files, output_path, tflite_model)
          /\ Goto("lstm_write", "lstm_interpreter",
                  <<"Demo LSTM model saved to:", "Model size:">>)
  /\ UNCHANGED <<fixed, dirs, conv, lstm_vars, insp, exported>>

\* test_model = tf.lite.Interpreter(model_path=output_path); allocate; details
LstmInterpreter ==
  /\ pc = "lstm_interpreter"
  /\ \/ Goto("lstm_interpreter", "lstm_inference", <<"Input shape:", "Output shape:">>)
     \/ Fail("lstm_interpreter")
  /\ UNCHANGED <<fixed, fsys, conv, lstm_vars, insp, exported>>

\* set_tensor, invoke, get_tensor, print; return output_path; main calls
\* generate_model_info(model_path)
LstmInference ==
  /\ pc = "lstm_inference"
  /\ \/ Goto("lstm_inference", "gmi_replace", <<"Test prediction:">>)
     \/ Fail("lstm_inference")
  /\ UNCHANGED <<fixed, fsys, conv, lstm_vars, insp, exported>>

\* generate_model_info: info_content = ...; info_path = output_path.replace(...)
GmiReplace ==
  /\ pc = "gmi_replace"
  /\ info_path' = InfoPathOf(output_path)
  /\ Goto("gmi_replace", "gmi_write", <<>>)
  /\ UNCHANGED <<fixed, fsys, conv, output_path, insp, exported>>

\* with open(info_path, 'w') as f: f.write(info_content)
GmiWrite ==
  /\ pc = "gmi_write"
  /\ IF OpenRaises(info_path, dirs, files)
     THEN /\ files' = files
          /\ Fail("gmi_write")
     ELSE /\ files' = WriteFile(files, info_path, InfoContent)
          /\ Goto("gmi_write", "gmi_print", <<>>)
  /\ UNCHANGED <<fixed, dirs, conv, lstm_vars, insp, exported>>

\* print("Model info saved to: ..."); return
GmiPrint ==
  /\ pc = "gmi_print"
  /\ IF entry = "lstm"
     THEN Goto("gmi_print", "lstm_success", <<"Model info saved to:">>)
     ELSE Finish("gmi_print", "done", <<"Model info saved to:">>)
  /\ UNCHANGED <<fixed, fsys, conv, lstm_vars, insp, exported>>

\* print("Model generation completed successfully!") and the instructions
LstmSuccess ==
  /\ pc = "lstm_success"
  /\ Finish("lstm_success", "done", <<"Model generation completed successfully!">>)
  /\ UNCHANGED <<fixed, fsys, conv, lstm_vars, insp, exported>>

\* mutant: the except clause starts the generation again
LstmExceptRetries ==
  /\ pc = "lstm_except"
  /\ Goto("lstm_except", "lstm_build", <<"Error generating model:">>)
  /\ UNCHANGED <<fixed, fsys, conv, lstm_vars, insp, exported>>

\* mutant: the except clause removes the model file it wrote
LstmExceptCleansUp ==
  /\ pc = "lstm_except"
  /\ files' = [q \in DOMAIN files \ {output_path} |-> files[q]]
  /\ dirs' = dirs
  /\ Finish("lstm_except", "done", <<"Error generating model:">>)
  /\ UNCHANGED <<fixed, conv, lstm_vars, insp, exported>>

\* except Exception as e: print("Error generating model: ...")
LstmExcept ==
  /\ pc = "lstm_except"
  /\ Finish("lstm_except", "done", <<"Error generating model:">>)
  /\ UNCHANGED <<fixed, fsys, conv, lstm_vars, insp, exported>>

GmiNext == GmiReplace \/ GmiWrite \/ GmiPrint

LstmNext ==
  \/ LstmImport \/ LstmMain \/ LstmBuild \/ LstmFit \/ LstmFromKeras \/ LstmConvert
  \/ LstmWrite \/ LstmInterpreter \/ LstmInference \/ GmiNext
  \/ LstmSuccess \/ LstmExcept

----------------------------------------------------------------------------
(* convert_yolo_model.py *)

\* try: from ultralytics import YOLO / except ImportError: print; exit(1)
YoloImport ==
  /\ pc = "yolo_import"
  /\ \/ Goto("yolo_import", IF entry = "yolo" THEN "yolo_main" ELSE "yolo_load", <<>>)
     \/ Finish("yolo_import", "exit1", <<"ultralytics not found.">>)
  /\ UNCHANGED <<fixed, fsys, conv, lstm_vars, insp, exported>>

\* __main__: os.makedirs('assets/models', exist_ok=True); two prints; the call of
\* convert_yolo_to_tflite() is commented out
YoloMain ==
  /\ pc = "yolo_main"
  /\ IF MakedirsRaises(AssetsModels, dirs, files)
     THEN /\ dirs' = dirs
          /\ Fail("yolo_main")
     ELSE /\ dirs' = MakedirsResult(AssetsModels, dirs)
          /\ Finish("yolo_main", "done", <<"This script provides the logic", "To run this">>)
  /\ UNCHANGED <<fixed, files, conv, lstm_vars, insp, exported>>

\* convert_yolo_to_tflite: print; model = YOLO(model_path)
YoloLoad ==
  /\ pc = "yolo_load"
  /\ \/ Goto("yolo_load", "yolo_export", <<"Loading YOLOv11 model:">>)
     \/ /\ console' = console \o <<"Loading YOLOv11 model:", "Traceback">>
        /\ pc' = "end"
        /\ outcome' = "traceback"
        /\ calls' = Append(calls, "yolo_load")
        /\ raised' = Append(raised, "yolo_load")
  /\ UNCHANGED <<fixed, fsys, conv, lstm_vars, insp, exported>>

\* print; model.export(format='tflite', int8=True, nms=True)
YoloExport ==
  /\ pc = "yolo_export"
  /\ \/ /\ exported' = TRUE
        /\ Goto("yolo_export", "yolo_finish", <<"Exporting to TFLite format">>)
     \/ /\ exported' = exported
        /\ Fail("yolo_export")
  /\ UNCHANGED <<fixed, fsys, conv, lstm_vars, insp>>

\* source_file, target_file computed; print("Model exported. Please move ...")
YoloFinish ==
  /\ pc = "yolo_finish"
  /\ Finish("yolo_finish", "done", <<"Model exported. Please move the tflite file">>)
  /\ UNCHANGED <<fixed, fsys, conv, lstm_vars, insp, exported>>

YoloNext == YoloImport \/ YoloMain \/ YoloLoad \/ YoloExport \/ YoloFinish

----------------------------------------------------------------------------
(* Specifications *)

Next == TfNext \/ LstmNext \/ YoloNext

Spec == Init /\ [][Next]_vars

\* a script is one sequential process: a statement that can run does run
LiveSpec == Init /\ [][Next]_vars /\ WF_vars(Next)

\* generate_model_info called on its own with any output_path
SpecInfo == InitInfo /\ [][GmiNext]_vars

----------------------------------------------------------------------------
(* Vocabulary of the properties *)

Range(s) == {s[k] : k \in DOMAIN s}

Pos(s, x) == CHOOSE k \in DOMAIN s : s[k] = x

\* statement b has started only after statement a started and returned
Before(a, b) ==
  b \in Range(calls) =>
    /\ a \in Range(calls)
    /\ Pos(calls, a) < Pos(calls, b)
    /\ a \notin Range(raised)

\* the files this run created or wrote
WrittenByRun == {q \in DOMAIN files : q \notin DOMAIN files0 \/ files[q] # files0[q]}

\* the file at q is as it was when the run started
Untouched(q) ==
  /\ q \in DOMAIN files <=> q \in DOMAIN files0
  /\ q \in DOMAIN files => files[q] = files0[q]

LstmModelFile ==
  <<"m", "o", "d", "e", "l", "s", "/", "a", "s", "l", "_", "l", "s", "t", "m", "_",
    "d", "e", "m", "o", ".", "t", "f", "l", "i", "t", "e">>

LstmInfoFile ==
  <<"m", "o", "d", "e", "l", "s", "/", "a", "s", "l", "_", "l", "s", "t", "m", "_",
    "d", "e", "m", "o", "_", "i", "n", "f", "o", ".", "m", "d">>

YoloTargetFile ==
  <<"a", "s", "s", "e", "t", "s", "/", "m", "o", "d", "e", "l", "s", "/",
    "y", "o", "l", "o", "v", "1", "1", ".", "t", "f", "l", "i", "t", "e">>

\* model load or build, training, converter construction, convert(), reload, inference
FrameworkCalls ==
  {"tf_from_saved_model", "tf_convert", "tf_interpreter", "tf_get_details",
   "lstm_build", "lstm_fit", "lstm_from_keras", "lstm_convert", "lstm_interpreter",
   "lstm_inference", "yolo_load", "yolo_export"}

FrameworkImports == {"tf_import", "lstm_import"}

\* the run of a script is over and none of its framework calls failed
CleanScriptRun ==
  /\ pc = "end"
  /\ entry \in {"yolo", "lstm", "tf"}
  /\ entry = "tf" => argv.complete
  /\ outcome # "exit1"
  /\ Range(raised) \cap (FrameworkCalls \cup FrameworkImports) = {}

ErrorPrinted == "Error generating model:" \in Range(console)

SuccessPrinted == "Model generation completed successfully!" \in Range(console)

----------------------------------------------------------------------------
(* C1 *)

\* C1 (as stated): a run of any of the three scripts in which no framework call
\* fails ends with exactly one file written by the run, the model file at the
\* output path.
C1_Original ==
  CleanScriptRun =>
    WrittenByRun = {CASE entry = "tf" -> args.output
                      [] entry = "lstm" -> LstmModelFile
                      [] OTHER -> YoloTargetFile}

\* C1 (amended): a run in which no framework call fails ends with these files
\* written by it and no other: the tf converter, the file at --output when
\* --output has a directory component and no file when it has none; the LSTM
\* generator, the model file and the companion _info.md file; the YOLO script,
\* no file.
C1_FilesWritten ==
  CleanScriptRun =>
    WrittenByRun = (CASE entry = "tf" ->
                           IF dirname(args.output) = <<>> THEN {} ELSE {args.output}
                      [] entry = "lstm" -> {LstmModelFile, LstmInfoFile}
                      [] OTHER -> {})

C1_Witness ==
  /\ CleanScriptRun
  /\ entry = "lstm"
  /\ outcome = "done"
  /\ WrittenByRun = {LstmModelFile, LstmInfoFile}

----------------------------------------------------------------------------
(* C2 *)

\* C2: in the tf converter, for every --output path (with or without a directory
\* component), when convert() succeeds the run ends with a file at --output
\* holding the bytes convert() returned.
C2_OutputWritten ==
  (/\ entry = "tf"
   /\ pc = "end"
   /\ "tf_convert" \in Range(calls)
   /\ "tf_convert" \notin Range(raised))
  => /\ args.output \in DOMAIN files
     /\ files[args.output] = tflite_model

----------------------------------------------------------------------------
(* C3 *)

\* C3: in the tf converter and in create_demo_lstm_model the steps run in the
\* order input handling, convert(), write of the output file, reload: the output
\* file is written only after convert() returned, the reload starts only after
\* the write completed, and when convert() raises no file is created or changed.
C3_StepOrder ==
  /\ entry = "tf" =>
       /\ Before("tf_parse", "tf_from_saved_model")
       /\ Before("tf_from_saved_model", "tf_convert")
       /\ Before("tf_convert", "tf_makedirs")
       /\ Before("tf_makedirs", "tf_write")
       /\ Before("tf_write", "tf_interpreter")
       /\ \/ Untouched(args.output)
          \/ /\ tflite_model \in ModelBytes
             /\ "tf_write" \in Range(calls)
             /\ files[args.output] = tflite_model
       /\ "tf_interpreter" \in Range(calls) => files[args.output] = tflite_model
       /\ "tf_convert" \in Range(raised) => files = files0
  /\ entry = "lstm" =>
       /\ Before("lstm_build", "lstm_fit")
       /\ Before("lstm_fit", "lstm_from_keras")
       /\ Before("lstm_from_keras", "lstm_convert")
       /\ Before("lstm_convert", "lstm_write")
       /\ Before("lstm_write", "lstm_interpreter")
       /\ \/ Untouched(LstmModelFile)
          \/ /\ tflite_model \in ModelBytes
             /\ "lstm_write" \in Range(calls)
             /\ files[LstmModelFile] = tflite_model
       /\ "lstm_interpreter" \in Range(calls) => files[LstmModelFile] = tflite_model
       /\ "lstm_convert" \in Range(raised) => files = files0

C3_Witness ==
  /\ entry = "tf"
  /\ "tf_interpreter" \in Range(calls)
  /\ args.output \in DOMAIN files0
  /\ args.output \in DOMAIN files
  /\ files[args.output] = tflite_model

----------------------------------------------------------------------------
(* C4 *)

\* C4 (as stated): in every script, whenever a framework call raises, the script
\* catches the exception and prints a message instead of letting it propagate.
C4_Original ==
  (pc = "end" /\ raised # <<>> /\ raised[1] \in FrameworkCalls)
  => /\ outcome = "done"
     /\ "Traceback" \notin Range(console)
     /\ console[Len(console)] \in {"Error generating model:", "(inspect skipped)"}

\* C4 (amended): generate_lstm_model.main catches every exception raised by a
\* framework call made inside main and prints 'Error generating model'; the tf
\* converter catches only what the inspection of the written file raises and
\* prints '(inspect skipped)'; every other exception (the tensorflow import,
\* from_saved_model, convert(), YOLO(), export(), a file operation outside a try)
\* propagates out of the procedure.
C4_WhatIsCaught ==
  (pc = "end" /\ raised # <<>>)
  => /\ Len(raised) = 1
     /\ CASE raised[1] \in {"lstm_build", "lstm_fit", "lstm_from_keras", "lstm_convert",
                            "lstm_interpreter", "lstm_inference"} ->
               /\ outcome = "done"
               /\ console[Len(console)] = "Error generating model:"
               /\ "Traceback" \notin Range(console)
          [] raised[1] \in {"tf_interpreter", "tf_get_details"} ->
               /\ outcome = "done"
               /\ console[Len(console)] = "(inspect skipped)"
               /\ "Traceback" \notin Range(console)
          [] OTHER ->
               /\ outcome = "traceback"
               /\ console[Len(console)] = "Traceback"

C4_Witness ==
  /\ pc = "end"
  /\ raised = <<"lstm_convert">>
  /\ outcome = "done"
  /\ console[Len(console)] = "Error generating model:"

----------------------------------------------------------------------------
(* C5 *)

\* C5: in the tf converter the inspection is best-effort: when the reload or the
\* tensor queries raise, '(inspect skipped)' is printed and the run ends
\* normally, the file written at --output is left as written, and 'Wrote:' and
\* 'Size:' were printed before the inspection began.
C5_InspectBestEffort ==
  (/\ entry = "tf"
   /\ raised # <<>>
   /\ raised[1] \in {"tf_interpreter", "tf_get_details"})
  => /\ pc \in {"tf_except", "end"}
     /\ tflite_model \in ModelBytes
     /\ args.output \in DOMAIN files
     /\ files[args.output] = tflite_model
     /\ \A q \in DOMAIN files0 \ {args.output} : q \in DOMAIN files /\ files[q] = files0[q]
     /\ WrittenByRun = {args.output}
     /\ Len(console) >= 2
     /\ SubSeq(console, 1, 2) = <<"Wrote:", "Size:">>
     /\ "Traceback" \notin Range(console)
     /\ pc = "end" => /\ outcome = "done"
                      /\ console[Len(console)] = "(inspect skipped)"

C5_Witness ==
  /\ entry = "tf"
  /\ pc = "end"
  /\ raised = <<"tf_get_details">>
  /\ console = <<"Wrote:", "Size:", "(inspect skipped)">>

----------------------------------------------------------------------------
(* C6 *)

\* C6: every run of each script runs to completion: it eventually reaches a
\* final state, finished normally or ended with an error.
C6_Terminates ==
  <>(pc = "end" /\ outcome \in {"done", "traceback", "exit1", "exit2"})

C6_Witness ==
  /\ pc = "end"
  /\ entry = "tf"
  /\ outcome = "done"
  /\ in_details > 0
  /\ out_details > 0
  /\ idx = out_details

----------------------------------------------------------------------------
(* C7 *)

\* C7: there is no retry: in a run each step is executed at most once, and after
\* a failure only the except clause runs, never an earlier step again.
C7_NoRetry ==
  /\ \A i, j \in DOMAIN calls : calls[i] = calls[j] => i = j
  /\ Len(raised) <= 1
  /\ raised # <<>> =>
       /\ raised[1] \in Range(calls)
       /\ \A k \in (Pos(calls, raised[1]) + 1)..Len(calls) :
            calls[k] \in {"tf_except", "lstm_except"}

C7_Witness ==
  /\ pc = "end"
  /\ entry = "lstm"
  /\ raised = <<"lstm_interpreter">>
  /\ calls[Len(calls)] = "lstm_except"

----------------------------------------------------------------------------
(* C8 *)

LstmInferenceSucceeded ==
  "lstm_inference" \in Range(calls) /\ "lstm_inference" \notin Range(raised)

\* C8 (as stated): in generate_lstm_model.main a failed run leaves no partial
\* output: when 'Error generating model' is printed neither the model file nor
\* the info file of the run exists; when success is printed both exist; the info
\* file exists only if the model file exists and the test inference succeeded.
C8_Original ==
  entry = "lstm" =>
    /\ ErrorPrinted => LstmModelFile \notin WrittenByRun /\ LstmInfoFile \notin WrittenByRun
    /\ SuccessPrinted => LstmModelFile \in WrittenByRun /\ LstmInfoFile \in WrittenByRun
    /\ LstmInfoFile \in WrittenByRun =>
         LstmModelFile \in WrittenByRun /\ LstmInferenceSucceeded

\* C8 (amended): a failed run can leave the model file: when 'Error generating
\* model' is printed the info file of the run does not exist, and the model file
\* of the run exists exactly when the failure came after the write (in the
\* interpreter reload or the test inference); when success is printed both
\* exist; the info file exists only if the model file exists and the test
\* inference succeeded.
C8_PartialOutput ==
  entry = "lstm" =>
    /\ ErrorPrinted =>
         /\ LstmInfoFile \notin WrittenByRun
         /\ LstmModelFile \in WrittenByRun
              <=> raised[1] \in {"lstm_interpreter", "lstm_inference"}
         /\ LstmModelFile \in WrittenByRun => files[LstmModelFile] = tflite_model
    /\ SuccessPrinted =>
         /\ files[LstmModelFile] = tflite_model
         /\ files[LstmInfoFile] = InfoContent
         /\ WrittenByRun = {LstmModelFile, LstmInfoFile}
    /\ LstmInfoFile \in WrittenByRun =>
         LstmModelFile \in WrittenByRun /\ LstmInferenceSucceeded

C8_Witness ==
  /\ entry = "lstm"
  /\ pc = "end"
  /\ ErrorPrinted
  /\ LstmModelFile \in WrittenByRun
  /\ LstmInfoFile \notin DOMAIN files

----------------------------------------------------------------------------
(* C9 *)

\* C9: generate_model_info(output_path) never modifies the model file: for every
\* output_path the info text is written to a different path, and the file at
\* output_path has the same contents after the call as before.
C9_ModelFileKept ==
  entry = "info" =>
    /\ "gmi_replace" \in Range(calls) => info_path # output_path
    /\ Untouched(output_path)

----------------------------------------------------------------------------
(* C10 *)

\* C10: in the tf converter FP16 is applied only on request: on a command line
\* that omits --fp16, supported_types is not [float16] when convert() is called.
C10_Fp16OnlyOnRequest ==
  (entry = "tf" /\ pc = "tf_convert" /\ ~argv.fp16_flag)
  => supported_types # "float16"

====
